---- MODULE Spec2Model ----
(***************************************************************************)
(* Page-crawl-and-extract engine of the repository:                        *)
(*   Data_collection/Web_scraping/selenium_scrpaer.py  (browser crawl)      *)
(*   Data_collection/Web_scraping/simple_scraper.py    (static crawl)       *)
(*   Data_collection/APIs/api_data_fetch.py            (API fetch + retry)  *)
(*                                                                         *)
(* Strings are sequences of tokens ("http:", "//", "x", "/", "a", " "), so *)
(* that strip(), upper() and urljoin() are computed and not assumed.       *)
(* Python values are tagged records: None, Str(tokens), List(values).      *)
(***************************************************************************)
EXTENDS Naturals, Sequences, FiniteSets, TLC

VARIABLES
    prog,          \* which script runs: "selenium", "simple", "api", or a unit call of an extractor
    pc,            \* position in the running script
    fields,        \* FIELDS / Fields: the ordered extraction rules
    pagination,    \* PAGINATION_NEXT_SELECTOR: None or a selector
    idx,           \* position of the for loop in START_URLs / START_URLS
    next_url,      \* selenium main: next_url; simple main: url
    all_data,      \* the list of records collected so far
    page,          \* the document the driver shows / the parsed soup
    current_url,   \* driver.current_url
    driver_open,   \* FALSE once driver.quit() has run
    quits,         \* number of calls of scraper.close(), that is of driver.quit()
    gets,          \* outcomes of the driver.get / requests calls made for the page in work
    sleeps,        \* durations of the time.sleep calls made for the page in work
    visited,       \* per start URL: the URLs its loop has passed to fetch, in order
    status,        \* per start URL: "PENDING", "RUNNING", "DONE", "FAILED"
    failed_at,     \* per start URL: the step whose exception ended it, or "-"
    raised,        \* TRUE while an exception propagates out of main
    written,       \* content of the output file, None while not written
    count,         \* per start URL: the number of records it has appended
    method,        \* api: the method argument
    retries,       \* api: the retries argument
    attempt,       \* api: the loop counter
    ret            \* api: the value returned, None while running

vars == <<prog, pc, fields, pagination, idx, next_url, all_data, page, current_url,
          driver_open, quits, gets, sleeps, visited, status, failed_at, raised, written, count,
          method, retries, attempt, ret>>

crawlVars == <<fields, pagination, idx, next_url, all_data, page, current_url,
               driver_open, quits, visited, status, failed_at, raised, written, count>>

apiVars == <<method, retries, attempt, ret>>

---------------------------------------------------------------------------
(* Bounds of the model *)

\* pages loaded per start URL before the model stops following "next" links
MaxPages == 2
\* elements one selector matches on a page in the unit calls of the extractors
MaxEls == 2
\* largest value of the retries argument of fetch_api_data_to_json
MaxRetriesArg == 3

---------------------------------------------------------------------------
(* Python values *)

None == [t |-> "None"]
Str(s) == [t |-> "str", s |-> s]
List(v) == [t |-> "list", v |-> v]

IsStr(v) == v.t = "str"
IsList(v) == v.t = "list"

\* truth value of a Python object: None, "" and [] are false
Truthy(v) ==
    CASE v.t = "None" -> FALSE
      [] v.t = "str"  -> v.s # <<>>
      [] v.t = "list" -> v.v # <<>>

---------------------------------------------------------------------------
(* Strings *)

RECURSIVE LStrip(_)
LStrip(s) == IF s # <<>> /\ Head(s) = " " THEN LStrip(Tail(s)) ELSE s

RECURSIVE RStrip(_)
RStrip(s) ==
    IF s # <<>> /\ s[Len(s)] = " " THEN RStrip(SubSeq(s, 1, Len(s) - 1)) ELSE s

\* str.strip()
Strip(s) == RStrip(LStrip(s))

Schemes == {"http:", "https:"}

\* urllib.parse.urlsplit(url, scheme=default): scheme, netloc and path of a reference
UrlParse(s, default) ==
    LET hasScheme == s # <<>> /\ Head(s) \in Schemes
        rest == IF hasScheme THEN Tail(s) ELSE s
        hasNet == rest # <<>> /\ Head(rest) = "//"
        afterSl == IF hasNet THEN Tail(rest) ELSE rest
        hasHost == hasNet /\ afterSl # <<>> /\ Head(afterSl) # "/"
    IN  [scheme |-> IF hasScheme THEN Head(s) ELSE default,
         netloc |-> IF hasHost THEN Head(afterSl) ELSE "",
         path   |-> IF hasHost THEN Tail(afterSl) ELSE afterSl]

\* urllib.parse.urlunsplit
UrlUnparse(scheme, netloc, path) ==
    LET p == IF netloc # "" /\ path # <<>> /\ Head(path) # "/" THEN <<"/">> \o path ELSE path
        n == IF netloc # "" THEN <<"//", netloc>> \o p ELSE p
    IN  IF scheme # "" THEN <<scheme>> \o n ELSE n

\* the directory part of a base path: everything up to and including the last "/"
RECURSIVE BaseDir(_)
BaseDir(p) ==
    IF p = <<>> THEN <<"/">>
    ELSE IF p[Len(p)] = "/" THEN p
    ELSE IF Len(p) = 1 THEN <<>>
    ELSE BaseDir(SubSeq(p, 1, Len(p) - 1))

\* urllib.parse.urljoin(base, url), for references without query, fragment
\* or dot segments
urljoin(base, url) ==
    IF base = <<>> THEN url
    ELSE IF url = <<>> THEN base
    ELSE LET b == UrlParse(base, "")
             u == UrlParse(url, b.scheme)
         IN  IF u.scheme # b.scheme THEN url
             ELSE IF u.netloc # "" THEN UrlUnparse(u.scheme, u.netloc, u.path)
             ELSE IF u.path = <<>> THEN UrlUnparse(u.scheme, b.netloc, b.path)
             ELSE IF Head(u.path) = "/" THEN UrlUnparse(u.scheme, b.netloc, u.path)
             ELSE UrlUnparse(u.scheme, b.netloc, BaseDir(b.path) \o u.path)

\* an absolute URL: a scheme followed by a host
IsAbsolute(s) == Len(s) >= 3 /\ s[1] \in Schemes /\ s[2] = "//" /\ s[3] # "/"

---------------------------------------------------------------------------
(* Configuration *)

Wiki == <<"https:", "//", "en.wikipedia.org">>

\* the configured start pages
START_URLs ==
    << Wiki \o <<"/", "wiki", "/", "Albert_Einstein">>,
       <<"https:", "//", "www.myagedcare.gov.au", "/">> >>

START_URLS ==
    << Wiki \o <<"/", "wiki", "/", "Albert_Einstein">>,
       <<"https:", "//", "www.wikihow.com", "/", "Main-Page">> >>

\* a further page of the first site, the usual target of a "next" link
Page2Url == Wiki \o <<"/", "wiki", "/", "page2">>

\* the address the second site redirects its front page to
RedirectUrl == <<"https:", "//", "www.myagedcare.gov.au", "/", "home">>

Headings == "h1, h2, h3, h4, h5, h6"

Rule(n, sel, a, m) == [name |-> n, selector |-> sel, attr |-> a, multiple |-> m]

\* the extraction rules, in the order of the dict
FIELDS ==
    << Rule("page_title", "title", "text", FALSE),
       Rule("heading", Headings, "text", FALSE),
       Rule("links", "a", "href", TRUE),
       Rule("images", "img", "src", TRUE),
       Rule("paragraphs", "p", "text", TRUE) >>

Fields == FIELDS

PAGINATION_NEXT_SELECTOR == "a.next"

Selectors == {"title", Headings, "a", "img", "p", PAGINATION_NEXT_SELECTOR}

AttrNames == {"href", "src", "alt"}

\* seconds slept by SeleniumScraper.fetch before its second driver.get
FetchDelay == 5

\* driver.get calls SeleniumScraper.fetch makes at most: the try and its except
FetchAttempts == 2

\* default of the retries argument of fetch_api_data_to_json
DefaultRetries == 3

\* default of the delay argument of fetch_api_data_to_json
DefaultDelay == 5

---------------------------------------------------------------------------
(* Documents *)

\* an element: its text and its attributes (None for an attribute it lacks)
El(text, a, v) ==
    [text |-> text, attrs |-> [x \in AttrNames |-> IF x = a THEN v ELSE None]]

Doc(title, h, a, img, p, nxt) ==
    [s \in Selectors |->
        CASE s = "title" -> title
          [] s = Headings -> h
          [] s = "a" -> a
          [] s = "img" -> img
          [] s = "p" -> p
          [] s = PAGINATION_NEXT_SELECTOR -> nxt]

EmptyDoc == Doc(<<>>, <<>>, <<>>, <<>>, <<>>, <<>>)

\* the "next" element of a page: absent, or an anchor whose href is missing,
\* empty, the page's own address, or the following page
NextLinks(url) ==
    { <<>>,
      <<El(<<"next">>, "href", None)>>,
      <<El(<<"next">>, "href", Str(<<>>))>>,
      <<El(<<"next">>, "href", Str(url))>>,
      <<El(<<"next">>, "href", Str(Page2Url))>> }

\* what a start page or a following page may hold: a full article, or a bare
\* page without a <title> whose only anchor has no href
Documents(url) ==
    { Doc(<<El(<<" ", "Title", " ">>, "alt", None)>>,
          <<El(<<"Heading">>, "alt", None)>>,
          <<El(<<"a">>, "href", Str(<<"/", "wiki", "/", "a">>)),
            El(<<"b">>, "href", None)>>,
          <<El(<<>>, "src", Str(<<"logo.png">>))>>,
          <<El(<<"text">>, "alt", None)>>,
          nxt) : nxt \in NextLinks(url) }
    \cup
    { Doc(<<>>, <<>>, <<El(<<"b">>, "href", None)>>, <<>>, <<>>, nxt) :
          nxt \in NextLinks(url) }

\* where the browser ends up after loading url: at url, or at the address the
\* site redirects to
Landings(url) == IF url = START_URLs[2] THEN {url, RedirectUrl} ELSE {url}

---------------------------------------------------------------------------
(* Extraction *)

Put(rec, k, v) == [x \in (DOMAIN rec) \cup {k} |-> IF x = k THEN v ELSE rec[x]]

EmptyRecord == [x \in {} |-> None]

\* get_val resolving every attribute value, not only href and src
get_valAnyAttr(el, cfg, base_url) ==
    IF cfg.attr = "text" THEN Str(Strip(el.text))
    ELSE LET val == el.attrs[cfg.attr]
         IN  IF Truthy(val) THEN Str(urljoin(base_url, val.s)) ELSE val

\* simple_scraper.extract_fields.get_val
get_val(el, cfg, base_url) ==
    IF cfg.attr = "text" THEN Str(Strip(el.text))
    ELSE LET val == el.attrs[cfg.attr]
         IN  IF cfg.attr \in {"href", "src"} /\ Truthy(val)
             THEN Str(urljoin(base_url, val.s))
             ELSE val

\* one iteration of the loop of extract_fields
SimpleField(doc, cfg, base_url) ==
    LET els == doc[cfg.selector]
    IN  IF els = <<>> THEN (IF cfg.multiple THEN List(<<>>) ELSE None)
        ELSE IF cfg.multiple
             THEN List([i \in 1..Len(els) |-> get_val(els[i], cfg, base_url)])
             ELSE get_val(els[1], cfg, base_url)

RECURSIVE SimpleLoop(_, _, _, _)
SimpleLoop(doc, base_url, flds, rec) ==
    IF flds = <<>> THEN rec
    ELSE SimpleLoop(doc, base_url, Tail(flds),
                    Put(rec, Head(flds).name, SimpleField(doc, Head(flds), base_url)))

\* simple_scraper.extract_fields
extract_fields(doc, base_url) == SimpleLoop(doc, base_url, fields, EmptyRecord)

\* the value SeleniumScraper.extract appends to vals for one element
SeleniumVal(el, cfg, base_url) ==
    IF cfg.attr = "text" THEN Str(Strip(el.text))
    ELSE LET raw == el.attrs[cfg.attr]
         IN  IF cfg.attr \in {"href", "src"} /\ Truthy(raw)
             THEN Str(urljoin(base_url, raw.s))
             ELSE raw

\* SeleniumField keeping the whole list for a rule that asks for one value
SeleniumFieldKeepsList(doc, cfg, base_url) ==
    LET els == doc[cfg.selector]
        vals == [i \in 1..Len(els) |-> SeleniumVal(els[i], cfg, base_url)]
    IN  IF els = <<>> THEN (IF cfg.multiple THEN List(<<>>) ELSE None)
        ELSE List(vals)

\* one iteration of the loop over FIELDS of SeleniumScraper.extract
SeleniumField(doc, cfg, base_url) ==
    LET els == doc[cfg.selector]
        vals == [i \in 1..Len(els) |-> SeleniumVal(els[i], cfg, base_url)]
    IN  IF els = <<>> THEN (IF cfg.multiple THEN List(<<>>) ELSE None)
        ELSE IF cfg.multiple THEN List(vals) ELSE vals[1]

RECURSIVE SeleniumLoop(_, _, _, _)
SeleniumLoop(doc, base_url, flds, rec) ==
    IF flds = <<>> THEN rec
    ELSE SeleniumLoop(doc, base_url, Tail(flds),
                      Put(rec, Head(flds).name, SeleniumField(doc, Head(flds), base_url)))

\* SeleniumScraper.extract
extract(doc, base_url, cur) ==
    Put(SeleniumLoop(doc, base_url, fields, EmptyRecord), "url", Str(cur))

---------------------------------------------------------------------------
(* selenium_scrpaer.main *)

\* outcomes of driver.get: the page loads, a WebDriverException of a passing
\* kind (timeout, connection reset), a WebDriverException of a lasting kind
\* (unsupported scheme, malformed address), or an exception that is no
\* WebDriverException (the connection to the driver is lost)
GetKinds == {"ok", "transient", "fatal", "lost"}

\* the exceptions the except clause of SeleniumScraper.fetch catches
IsWebDriverException(kind) == kind \in {"transient", "fatal"}

\* the statement after the failing one: the except clause of the while body
Fail(step) ==
    /\ pc' = "except"
    /\ failed_at' = [failed_at EXCEPT ![idx] = step]

\* driver.get(url) succeeded: the browser shows a document
Load(url) ==
    \E d \in Documents(url), cur \in Landings(url) :
        /\ page' = d
        /\ current_url' = cur

\* for start_url in START_URLs: next_url = start_url
SelFor ==
    /\ prog = "selenium" /\ pc = "for"
    /\ IF idx < Len(START_URLs)
       THEN /\ idx' = idx + 1
            /\ next_url' = Str(START_URLs[idx + 1])
            /\ status' = [status EXCEPT ![idx + 1] = "RUNNING"]
            /\ pc' = "while"
       ELSE /\ pc' = "finally"
            /\ UNCHANGED <<idx, next_url, status>>
    /\ UNCHANGED <<fields, pagination, all_data, page, current_url, driver_open, quits,
                   gets, sleeps, visited, failed_at, raised, written, count, prog,
                   apiVars>>

\* while next_url: ... scraper.fetch(next_url) is entered
SelWhile ==
    /\ prog = "selenium" /\ pc = "while"
    /\ IF Truthy(next_url)
       THEN /\ Len(visited[idx]) < MaxPages
            /\ visited' = [visited EXCEPT ![idx] = Append(@, next_url.s)]
            /\ gets' = <<>>
            /\ sleeps' = <<>>
            /\ pc' = "fetch"
            /\ UNCHANGED status
       ELSE /\ status' = [status EXCEPT ![idx] = "DONE"]
            /\ pc' = "for"
            /\ UNCHANGED <<visited, gets, sleeps>>
    /\ UNCHANGED <<fields, pagination, idx, next_url, all_data, page, current_url,
                   driver_open, quits, failed_at, raised, written, count, prog, apiVars>>

\* SelFetch without the time.sleep of the except clause
SelFetchNoSleep ==
    /\ prog = "selenium" /\ pc = "fetch"
    /\ \E kind \in GetKinds :
        /\ gets' = Append(gets, kind)
        /\ IF kind = "ok"
           THEN Load(next_url.s) /\ pc' = "wait_for" /\ UNCHANGED failed_at
           ELSE IF IsWebDriverException(kind)
           THEN pc' = "retry" /\ UNCHANGED <<page, current_url, failed_at>>
           ELSE Fail("fetch") /\ UNCHANGED <<page, current_url>>
    /\ UNCHANGED <<fields, pagination, idx, next_url, all_data, driver_open, quits,
                   sleeps, visited, status, raised, written, count, prog, apiVars>>

\* SeleniumScraper.fetch: the driver.get of the try block
SelFetch ==
    /\ prog = "selenium" /\ pc = "fetch"
    /\ \E kind \in GetKinds :
        /\ gets' = Append(gets, kind)
        /\ IF kind = "ok"
           THEN Load(next_url.s) /\ pc' = "wait_for" /\ UNCHANGED <<sleeps, failed_at>>
           ELSE IF IsWebDriverException(kind)
           THEN /\ sleeps' = Append(sleeps, FetchDelay)
                /\ pc' = "retry"
                /\ UNCHANGED <<page, current_url, failed_at>>
           ELSE Fail("fetch") /\ UNCHANGED <<page, current_url, sleeps>>
    /\ UNCHANGED <<fields, pagination, idx, next_url, all_data, driver_open, quits,
                   visited, status, raised, written, count, prog, apiVars>>

\* SelRetry as a loop that sleeps and tries once more when the retry fails
SelRetryAgain ==
    /\ prog = "selenium" /\ pc = "retry"
    /\ \E kind \in GetKinds :
        /\ gets' = Append(gets, kind)
        /\ IF kind = "ok"
           THEN Load(next_url.s) /\ pc' = "wait_for" /\ UNCHANGED <<failed_at, sleeps>>
           ELSE IF IsWebDriverException(kind) /\ Len(gets) < FetchAttempts
           THEN /\ sleeps' = Append(sleeps, FetchDelay)
                /\ pc' = "retry"
                /\ UNCHANGED <<page, current_url, failed_at>>
           ELSE Fail("fetch") /\ UNCHANGED <<page, current_url, sleeps>>
    /\ UNCHANGED <<fields, pagination, idx, next_url, all_data, driver_open, quits,
                   visited, status, raised, written, count, prog, apiVars>>

\* SeleniumScraper.fetch: the driver.get of the except clause, after the sleep
SelRetry ==
    /\ prog = "selenium" /\ pc = "retry"
    /\ \E kind \in GetKinds :
        /\ gets' = Append(gets, kind)
        /\ IF kind = "ok"
           THEN Load(next_url.s) /\ pc' = "wait_for" /\ UNCHANGED failed_at
           ELSE Fail("fetch") /\ UNCHANGED <<page, current_url>>
    /\ UNCHANGED <<fields, pagination, idx, next_url, all_data, driver_open, quits,
                   sleeps, visited, status, raised, written, count, prog, apiVars>>

\* first_selector = next(iter(FIELDS.values()))["selector"]
first_selector == Head(fields).selector

\* WebDriverWait(...).until(presence_of_element_located(selector)): returns when
\* an element matches, raises TimeoutException when none does
wait_for(selector) == page[selector] # <<>>

\* scraper.wait_for(first_selector)
SelWaitFor ==
    /\ prog = "selenium" /\ pc = "wait_for"
    /\ IF wait_for(first_selector)
       THEN pc' = "auto_scroll" /\ UNCHANGED failed_at
       ELSE Fail("wait_for")
    /\ UNCHANGED <<fields, pagination, idx, next_url, all_data, page, current_url,
                   driver_open, quits, gets, sleeps, visited, status, raised, written,
                   count, prog, apiVars>>

\* scraper.auto_scroll(): execute_script returns or raises
SelAutoScroll ==
    /\ prog = "selenium" /\ pc = "auto_scroll"
    /\ \E ok \in BOOLEAN :
        IF ok THEN pc' = "extract" /\ UNCHANGED failed_at ELSE Fail("auto_scroll")
    /\ UNCHANGED <<fields, pagination, idx, next_url, all_data, page, current_url,
                   driver_open, quits, gets, sleeps, visited, status, raised, written,
                   count, prog, apiVars>>

\* SelExtract with all_data.insert(0, data) in place of all_data.append(data)
SelExtractPrepend ==
    /\ prog = "selenium" /\ pc = "extract"
    /\ \E ok \in BOOLEAN :
        IF ok
        THEN /\ all_data' = <<extract(page, next_url.s, current_url)>> \o all_data
             /\ count' = [count EXCEPT ![idx] = @ + 1]
             /\ pc' = "paginate"
             /\ UNCHANGED failed_at
        ELSE Fail("extract") /\ UNCHANGED <<all_data, count>>
    /\ UNCHANGED <<fields, pagination, idx, next_url, page, current_url,
                   driver_open, quits, gets, sleeps, visited, status, raised, written,
                   prog, apiVars>>

\* data = scraper.extract(next_url); all_data.append(data)
SelExtract ==
    /\ prog = "selenium" /\ pc = "extract"
    /\ \E ok \in BOOLEAN :
        IF ok
        THEN /\ all_data' = Append(all_data, extract(page, next_url.s, current_url))
             /\ count' = [count EXCEPT ![idx] = @ + 1]
             /\ pc' = "paginate"
             /\ UNCHANGED failed_at
        ELSE Fail("extract") /\ UNCHANGED <<all_data, count>>
    /\ UNCHANGED <<fields, pagination, idx, next_url, page, current_url,
                   driver_open, quits, gets, sleeps, visited, status, raised, written,
                   prog, apiVars>>

\* NextUrl with an except clause that leaves next_url as it is
NextUrlKept ==
    IF pagination # "None"
    THEN IF page[pagination] = <<>> THEN next_url
         ELSE page[pagination][1].attrs["href"]
    ELSE None

\* the value next_url gets in the pagination block when no exception escapes it
NextUrl ==
    IF pagination # "None"
    THEN IF page[pagination] = <<>> THEN None
         ELSE page[pagination][1].attrs["href"]
    ELSE None

\* if PAGINATION_NEXT_SELECTOR: find_element / get_attribute("href")
SelPaginate ==
    /\ prog = "selenium" /\ pc = "paginate"
    /\ \E ok \in BOOLEAN :
        IF ok \/ pagination = "None"
        THEN /\ next_url' = NextUrl
             /\ gets' = <<>>
             /\ sleeps' = <<>>
             /\ pc' = "while"
             /\ UNCHANGED failed_at
        ELSE Fail("paginate") /\ UNCHANGED <<next_url, gets, sleeps>>
    /\ UNCHANGED <<fields, pagination, idx, all_data, page, current_url,
                   driver_open, quits, visited, status, raised, written, count, prog,
                   apiVars>>

\* except Exception: logging.error; scraper.capture_screenshot(...); break
SelExcept ==
    /\ prog = "selenium" /\ pc = "except"
    /\ status' = [status EXCEPT ![idx] = "FAILED"]
    /\ gets' = <<>>
    /\ sleeps' = <<>>
    /\ \E saved \in BOOLEAN :
        IF saved
        THEN pc' = "for" /\ UNCHANGED raised
        ELSE pc' = "finally" /\ raised' = TRUE
    /\ UNCHANGED <<fields, pagination, idx, next_url, all_data, page, current_url,
                   driver_open, quits, visited, failed_at, written, count, prog, apiVars>>

\* scraper.close() placed after the try statement instead of in its finally
\* clause: an escaping exception skips it
SelFinallySkipped ==
    /\ prog = "selenium" /\ pc = "finally"
    /\ driver_open' = (driver_open /\ raised)
    /\ quits' = IF raised THEN quits ELSE quits + 1
    /\ pc' = IF raised THEN "crashed" ELSE "save"
    /\ UNCHANGED <<fields, pagination, idx, next_url, all_data, page, current_url,
                   gets, sleeps, visited, status, failed_at, raised, written, count,
                   prog, apiVars>>

\* finally: scraper.close()
SelFinally ==
    /\ prog = "selenium" /\ pc = "finally"
    /\ driver_open' = FALSE
    /\ quits' = quits + 1
    /\ pc' = IF raised THEN "crashed" ELSE "save"
    /\ UNCHANGED <<fields, pagination, idx, next_url, all_data, page, current_url,
                   gets, sleeps, visited, status, failed_at, raised, written, count,
                   prog, apiVars>>

\* with open(OUTPUT_JSON_PATH, "w") as f: json.dump(all_data, f, ...)
SelSave ==
    /\ prog = "selenium" /\ pc = "save"
    /\ written' = List(all_data)
    /\ pc' = "done"
    /\ UNCHANGED <<fields, pagination, idx, next_url, all_data, page, current_url,
                   driver_open, quits, gets, sleeps, visited, status, failed_at, raised,
                   count, prog, apiVars>>

---------------------------------------------------------------------------
(* simple_scraper.main *)

\* outcomes of fetch_html: the text of the response, an HTTPError raised by
\* raise_for_status, or a connection error or timeout raised by requests.get
FetchHtmlKinds == {"ok", "http_error", "connection"}

\* for url in START_URLS:
SimpleFor ==
    /\ prog = "simple" /\ pc = "for"
    /\ IF idx < Len(START_URLS)
       THEN /\ idx' = idx + 1
            /\ next_url' = Str(START_URLS[idx + 1])
            /\ status' = [status EXCEPT ![idx + 1] = "RUNNING"]
            /\ visited' = [visited EXCEPT ![idx + 1] = <<START_URLS[idx + 1]>>]
            /\ gets' = <<>>
            /\ pc' = "fetch_html"
       ELSE /\ pc' = "after_loop"
            /\ UNCHANGED <<idx, next_url, status, visited, gets>>
    /\ UNCHANGED <<fields, pagination, all_data, page, current_url, driver_open, quits,
                   sleeps, failed_at, raised, written, count, prog, apiVars>>

\* html = fetch_html(url), and the except clause when it raises
SimpleFetch ==
    /\ prog = "simple" /\ pc = "fetch_html"
    /\ \E kind \in FetchHtmlKinds :
        /\ gets' = Append(gets, kind)
        /\ IF kind = "ok"
           THEN /\ \E d \in Documents(next_url.s) : page' = d
                /\ pc' = "extract_fields"
                /\ UNCHANGED <<status, failed_at>>
           ELSE /\ status' = [status EXCEPT ![idx] = "FAILED"]
                /\ failed_at' = [failed_at EXCEPT ![idx] = "fetch"]
                /\ pc' = "for"
                /\ UNCHANGED page
    /\ UNCHANGED <<fields, pagination, idx, next_url, all_data, current_url,
                   driver_open, quits, sleeps, visited, raised, written, count, prog, apiVars>>

\* rec = extract_fields(html, url); rec["url"] = url; all_data.append(rec)
SimpleExtract ==
    /\ prog = "simple" /\ pc = "extract_fields"
    /\ all_data' = Append(all_data,
                          Put(extract_fields(page, next_url.s), "url", next_url))
    /\ count' = [count EXCEPT ![idx] = @ + 1]
    /\ status' = [status EXCEPT ![idx] = "DONE"]
    /\ pc' = "for"
    /\ UNCHANGED <<fields, pagination, idx, next_url, page, current_url,
                   driver_open, quits, gets, sleeps, visited, failed_at, raised, written,
                   prog, apiVars>>

\* if all_data: save_json(all_data, OUTPUT_JSON_PATH) else: logging.warning(...)
SimpleSave ==
    /\ prog = "simple" /\ pc = "after_loop"
    /\ written' = IF all_data # <<>> THEN List(all_data) ELSE written
    /\ pc' = "done"
    /\ UNCHANGED <<fields, pagination, idx, next_url, all_data, page, current_url,
                   driver_open, quits, gets, sleeps, visited, status, failed_at, raised,
                   count, prog, apiVars>>

---------------------------------------------------------------------------
(* api_data_fetch.fetch_api_data_to_json *)

Bool(b) == [t |-> "bool", b |-> b]

Methods == {"GET", "get", "post", "PUT"}

\* str.upper() on the method names
Upper(m) ==
    CASE m \in {"GET", "get"} -> "GET"
      [] m \in {"POST", "post"} -> "POST"
      [] m \in {"PUT", "put"} -> "PUT"

\* what one pass through the try block meets: a JSON object that is written, a
\* JSON value that is no object, an object whose file cannot be written, a
\* status raised by raise_for_status, a requests exception, an undecodable body.
\* os.makedirs runs before the isinstance check, so a JSON value that is no
\* object meets the OSError of makedirs first when the directory of
\* output_filepath cannot be made (dirname is "" for a bare file name)
ApiOutcomes ==
    {"dict", "not_dict", "not_dict_no_dir", "io_error", "http_4xx", "http_429",
     "http_5xx", "connection", "timeout", "bad_json"}

\* the responses whose JSON is not an object
ApiNotObject == {"not_dict", "not_dict_no_dir"}

\* the outcomes that are worth another attempt
ApiTransient == {"http_429", "http_5xx", "connection", "timeout"}

\* the outcomes that no further attempt can change
ApiFatal == {"http_4xx", "bad_json"}

\* one iteration of: while attempt < retries
ApiTry ==
    /\ prog = "api" /\ pc = "while" /\ attempt < retries
    /\ IF Upper(method) \notin {"GET", "POST"}
       THEN /\ ret' = Bool(FALSE)
            /\ pc' = "returned"
            /\ UNCHANGED <<gets, sleeps, written, attempt>>
       ELSE \E o \in ApiOutcomes :
            /\ gets' = Append(gets, o)
            /\ CASE o = "dict" ->
                    /\ written' = Str(<<"{", "}">>)
                    /\ ret' = Bool(TRUE)
                    /\ pc' = "returned"
                    /\ UNCHANGED <<sleeps, attempt>>
                 [] o = "not_dict" ->
                    /\ ret' = Bool(FALSE)
                    /\ pc' = "returned"
                    /\ UNCHANGED <<sleeps, written, attempt>>
                 [] OTHER ->
                    /\ attempt' = attempt + 1
                    /\ sleeps' = Append(sleeps, DefaultDelay)
                    /\ pc' = "while"
                    /\ UNCHANGED <<ret, written>>
    /\ UNCHANGED <<fields, pagination, idx, next_url, all_data, page, current_url,
                   driver_open, quits, visited, status, failed_at, raised, count, prog,
                   method, retries>>

\* the loop condition fails: return False
ApiGiveUp ==
    /\ prog = "api" /\ pc = "while" /\ attempt >= retries
    /\ ret' = Bool(FALSE)
    /\ pc' = "returned"
    /\ UNCHANGED <<fields, pagination, idx, next_url, all_data, page, current_url,
                   driver_open, quits, gets, sleeps, visited, status, failed_at, raised,
                   written, count, prog, method, retries, attempt>>

---------------------------------------------------------------------------
(* The scripts *)

Jobs == 1..Len(START_URLs)

\* main before its loop: nothing collected, the browser just started
InitRun ==
    /\ idx = 0
    /\ all_data = <<>>
    /\ driver_open = TRUE
    /\ quits = 0
    /\ gets = <<>>
    /\ sleeps = <<>>
    /\ visited = [j \in Jobs |-> <<>>]
    /\ status = [j \in Jobs |-> "PENDING"]
    /\ failed_at = [j \in Jobs |-> "-"]
    /\ raised = FALSE
    /\ written = None
    /\ count = [j \in Jobs |-> 0]

InitApi ==
    /\ attempt = 0
    /\ ret = None

Init ==
    /\ InitRun
    /\ InitApi
    /\ fields = FIELDS
    /\ next_url = None
    /\ page = EmptyDoc
    /\ current_url = <<>>
    /\ \/ /\ prog = "selenium" /\ pc = "for"
          /\ pagination \in {"None", PAGINATION_NEXT_SELECTOR}
          /\ method = "GET" /\ retries = DefaultRetries
       \/ /\ prog = "simple" /\ pc = "for"
          /\ pagination = "None"
          /\ method = "GET" /\ retries = DefaultRetries
       \/ /\ prog = "api" /\ pc = "while"
          /\ pagination = "None"
          /\ method \in Methods
          /\ retries \in 0..MaxRetriesArg

Next ==
    \/ SelFor \/ SelWhile \/ SelFetch \/ SelRetry \/ SelWaitFor \/ SelAutoScroll
    \/ SelExtract \/ SelPaginate \/ SelExcept \/ SelFinally \/ SelSave
    \/ SimpleFor \/ SimpleFetch \/ SimpleExtract \/ SimpleSave
    \/ ApiTry \/ ApiGiveUp

Spec == Init /\ [][Next]_vars

---------------------------------------------------------------------------
(* The extractors called on their own, for every rule and document *)

SeqsUpTo(S, n) == UNION {[1..k -> S] : k \in 0..n}

TitleRule == Rule("page_title", "title", "text", FALSE)

UnitRules ==
    {Rule("f", "a", a, m) : a \in {"text", "href", "src", "alt"}, m \in BOOLEAN}

UnitRuleSets == {<<r>> : r \in UnitRules} \cup {<<TitleRule, r>> : r \in UnitRules}

UnitEls ==
    { El(<<" ", "a", " ">>, "href", Str(<<"/", "wiki", "/", "a">>)),
      El(<<"b">>, "href", Str(<<"b">>)),
      El(<<"c">>, "href", Str(Page2Url)),
      El(<<>>, "href", None),
      El(<<" ">>, "href", Str(<<>>)),
      El(<<"d">>, "alt", Str(<<"d">>)),
      El(<<"e">>, "src", Str(<<"//", "cdn.org", "/", "e.png">>)) }

UnitDocs ==
    { Doc(title, <<>>, a, <<>>, <<>>, <<>>) :
        title \in {<<>>, <<El(<<"Title">>, "alt", None)>>},
        a \in SeqsUpTo(UnitEls, MaxEls) }

InitExtract ==
    /\ InitRun
    /\ InitApi
    /\ prog \in {"extract_fields", "extract"}
    /\ pc = "call"
    /\ pagination = "None"
    /\ method = "GET" /\ retries = DefaultRetries
    /\ \E rs \in UnitRuleSets, d \in UnitDocs, b \in {1, 2} :
        /\ fields = rs
        /\ page = d
        /\ next_url = Str(START_URLs[b])
        /\ current_url = START_URLs[b]

\* rec = extract_fields(html, base_url)
CallExtractFields ==
    /\ prog = "extract_fields" /\ pc = "call"
    /\ all_data' = <<extract_fields(page, next_url.s)>>
    /\ pc' = "returned"
    /\ UNCHANGED <<fields, pagination, idx, next_url, page, current_url,
                   driver_open, quits, gets, sleeps, visited, status, failed_at, raised,
                   written, count, prog, apiVars>>

\* data = scraper.extract(base_url)
CallExtract ==
    /\ prog = "extract" /\ pc = "call"
    /\ all_data' = <<extract(page, next_url.s, current_url)>>
    /\ pc' = "returned"
    /\ UNCHANGED <<fields, pagination, idx, next_url, page, current_url,
                   driver_open, quits, gets, sleeps, visited, status, failed_at, raised,
                   written, count, prog, apiVars>>

NextExtract == CallExtractFields \/ CallExtract

SpecExtract == InitExtract /\ [][NextExtract]_vars

---------------------------------------------------------------------------
(* Properties *)

Crawl == prog \in {"selenium", "simple"}

\* main has returned, or an exception has left it
Ended == pc \in {"done", "crashed"}

NoDuplicates(q) == \A a, b \in DOMAIN q : a # b => q[a] # q[b]

AllIn(q, S) == \A i \in DOMAIN q : q[i] \in S

\* C1: within one start URL no URL is passed to fetch twice: a "next" link to
\* a URL already visited in this job, the current page included, ends the job
\* and is not followed
C1_NoUrlFetchedTwice ==
    prog = "selenium" => \A j \in Jobs : NoDuplicates(visited[j])

\* C2: whatever fails while one start URL is processed, the screenshot taken
\* on failure included, every start URL has been processed when the run ends,
\* and the run ends by writing the records collected
C2_FailureIsolation ==
    (Crawl /\ Ended) =>
        /\ pc = "done"
        /\ \A j \in Jobs : status[j] \in {"DONE", "FAILED"}
        /\ all_data # <<>> => written = List(all_data)

\* C3: a start URL whose fetch of page k failed for good is FAILED, has
\* appended exactly the records of its pages 1..k-1, and when there are such
\* records they are in the result written at the end of the run
C3_FetchFailureKeepsRecords ==
    (prog = "selenium" /\ Ended) =>
        \A j \in Jobs : failed_at[j] = "fetch" =>
            /\ status[j] = "FAILED"
            /\ count[j] = Len(visited[j]) - 1
            /\ count[j] > 0 => written = List(all_data)

C5_FatalNotRetried ==
    (prog \in {"selenium", "api"}) =>
        \A i \in DOMAIN gets :
            gets[i] \in ({"fatal"} \cup ApiFatal) => (Len(gets) = i /\ Len(sleeps) < i)

Returned(cfg) == all_data[1][cfg.name]

C8_AbsenceIsNoError ==
    (prog = "selenium" /\ pc = "except" /\ gets # <<>> /\ gets[Len(gets)] = "ok"
        /\ \E i \in DOMAIN fields : page[fields[i].selector] = <<>>)
      => failed_at[idx] \in {"auto_scroll", "extract", "paginate"}

\* a value of the output format: null, a string, or a list of strings
IsOutputValue(v) ==
    \/ v = None
    \/ IsStr(v)
    \/ IsList(v) /\ \A k \in DOMAIN v.v : IsStr(v.v[k])

\* C9: every value of a record is None, a string or a list of strings
C9_ValuesAreStrings ==
    pc = "returned" => \A n \in DOMAIN all_data[1] : IsOutputValue(all_data[1][n])

\* the value a named-attribute rule is to give for a raw attribute value
Resolved(a, raw, base) ==
    IF a \in {"href", "src"} /\ raw # None /\ raw # Str(<<>>)
    THEN Str(urljoin(base, raw.s))
    ELSE raw

\* C10: for a rule on a named attribute, each extracted value is the raw value
\* resolved against the base URL when the attribute is href or src and the
\* value is not empty: absolute, and equal to the raw value when that is
\* absolute already; otherwise it is the raw value itself
C10_HrefSrcResolved ==
    pc = "returned" =>
        \A i \in DOMAIN fields :
            LET cfg == fields[i]
                els == page[cfg.selector]
                v == Returned(cfg)
                out(k) == IF cfg.multiple THEN v.v[k] ELSE v
                ks == IF cfg.multiple THEN DOMAIN els ELSE {1}
            IN  (cfg.attr # "text" /\ els # <<>>) =>
                    \A k \in ks :
                        LET raw == els[k].attrs[cfg.attr]
                        IN  /\ out(k) = Resolved(cfg.attr, raw, next_url.s)
                            /\ (cfg.attr \in {"href", "src"} /\ Truthy(raw)) =>
                                  /\ IsAbsolute(out(k).s)
                                  /\ IsAbsolute(raw.s) => out(k) = raw
                            /\ (cfg.attr = "alt" \/ ~Truthy(raw)) => out(k) = raw

C10_Witness ==
    /\ pc = "returned" /\ prog = "extract_fields"
    /\ Len(fields) = 1 /\ fields[1].attr = "href" /\ fields[1].multiple
    /\ Len(page["a"]) = 2
    /\ page["a"][1].attrs["href"] = Str(<<"b">>)
    /\ page["a"][2].attrs["href"] = Str(Page2Url)
    /\ all_data[1]["f"] =
          List(<<Str(<<"https:", "//", "en.wikipedia.org", "/", "wiki", "/", "b">>),
                 Str(Page2Url)>>)

\* the record appended last
LastRecord == all_data[Len(all_data)]

\* C11: every record has a url field, and it is the base URL against which
\* the href and src values of that record were resolved: the URL passed to
\* extract and to extract_fields
C11_UrlIsBase ==
    /\ Crawl => \A k \in DOMAIN all_data :
                    "url" \in DOMAIN all_data[k] /\ IsStr(all_data[k]["url"])
    /\ (prog = "selenium" /\ pc = "paginate") => LastRecord["url"] = next_url
    /\ (prog = "simple" /\ pc = "for" /\ idx >= 1 /\ status[idx] = "DONE")
          => LastRecord["url"] = next_url

\* the page shows no next URL: no selector is configured, no element matches
\* it, or the href of the first match is missing or empty
NoNextLink ==
    \/ pagination = "None"
    \/ page[pagination] = <<>>
    \/ page[pagination][1].attrs["href"] \in {None, Str(<<>>)}

\* C12: after a page without a next URL the loop of its start URL ends and the
\* job is DONE, with one record for each page it visited: exactly one when the
\* first page has no next link
C12_NoNextEndsJob ==
    /\ [](prog = "selenium" =>
            /\ (pc = "while" /\ visited[idx] # <<>> /\ NoNextLink)
                  => (next_url \in {None, Str(<<>>)}
                      /\ count[idx] = Len(visited[idx]))
            /\ \A j \in Jobs : status[j] = "DONE"
                  => (count[j] = Len(visited[j]) /\ count[j] >= 1))
    /\ [][(prog = "selenium" /\ pc = "while" /\ next_url \in {None, Str(<<>>)})
            => (status'[idx] = "DONE" /\ pc' = "for"
                /\ all_data' = all_data /\ visited' = visited /\ count' = count)]_vars

C12_Witness ==
    /\ prog = "selenium" /\ pc = "for" /\ idx = 1
    /\ status[1] = "DONE" /\ count[1] = 1 /\ Len(all_data) = 1
    /\ pagination = PAGINATION_NEXT_SELECTOR
    /\ page[pagination] # <<>>
    /\ page[pagination][1].attrs["href"] = Str(<<>>)

\* the positions of main at which the browser is in use
InLoop ==
    {"for", "while", "fetch", "retry", "wait_for", "auto_scroll", "extract",
     "paginate", "except", "finally"}

\* C13: the browser acquired by main is closed on every way out of the crawl
\* loop, with all jobs DONE, after a FAILED job and when an exception escapes;
\* it is closed once, and nothing is fetched after the close
C13_SessionClosedOnce ==
    /\ [](prog = "selenium" =>
            /\ quits <= 1
            /\ driver_open <=> quits = 0
            /\ driver_open <=> pc \in InLoop
            /\ pc \in {"save", "done", "crashed"} => (~driver_open /\ quits = 1))
    /\ [][(prog = "selenium" /\ ~driver_open)
            => (gets' = gets /\ visited' = visited /\ page' = page
                /\ ~driver_open')]_vars

C13_Witness ==
    /\ prog = "selenium" /\ pc = "crashed" /\ raised
    /\ ~driver_open /\ quits = 1
    /\ status[1] = "DONE" /\ status[2] = "FAILED"

\* C14: fetch_api_data_to_json returns True exactly when a response was
\* fetched, decoded as a JSON object and written to the output file, and False
\* otherwise; it sends at most `retries` requests; with an unsupported method
\* it returns False without a request or a delay, and after a response whose
\* JSON is not an object it returns False with no further request or delay
C14_ReturnContract ==
    prog = "api" =>
        /\ Len(gets) <= retries
        /\ pc # "returned" => ret = None
        /\ pc = "returned" =>
            /\ ret \in {Bool(TRUE), Bool(FALSE)}
            /\ ret = Bool(TRUE) <=>
                  (gets # <<>> /\ gets[Len(gets)] = "dict"
                   /\ written = Str(<<"{", "}">>))
            /\ Upper(method) \notin {"GET", "POST"} =>
                  (ret = Bool(FALSE) /\ gets = <<>> /\ sleeps = <<>>)
        /\ \A i \in DOMAIN gets :
              gets[i] \in ApiNotObject =>
                  /\ i = Len(gets)
                  /\ Len(sleeps) = i - 1
                  /\ pc = "returned" /\ ret = Bool(FALSE)

\* the number of records appended before the first record of job j
RECURSIVE Offset(_)
Offset(j) == IF j = 1 THEN 0 ELSE Offset(j - 1) + count[j - 1]

\* C15: all_data is append-only and ordered. The records of start URL j stand
\* together, after those of the start URLs before it, in the order in which the
\* pages of j were visited; a step of the crawl, a failure included, leaves
\* every record already appended in its place and unchanged; and the file,
\* when it is written, holds the list as it is
C15_AppendOnlyOrdered ==
    /\ [](Crawl =>
            /\ Len(all_data) = Offset(Len(START_URLs) + 1)
            /\ \A j \in Jobs :
                /\ count[j] <= Len(visited[j])
                /\ \A i \in 1..count[j] :
                      all_data[Offset(j) + i]["url"]
                          \in {Str(u) : u \in IF prog = "selenium"
                                               THEN Landings(visited[j][i])
                                               ELSE {visited[j][i]}}
            /\ (pc = "done" /\ written # None) => written = List(all_data))
    /\ [][Crawl => /\ Len(all_data') >= Len(all_data)
                   /\ SubSeq(all_data', 1, Len(all_data)) = all_data]_vars

C15_Witness ==
    /\ prog = "selenium" /\ pc = "done"
    /\ count[1] = 2 /\ count[2] = 1 /\ Len(all_data) = 3
    /\ status[1] = "DONE" /\ status[2] = "FAILED"
    /\ Len(visited[2]) = 2
    /\ written = List(all_data)

====
